---- MODULE Spec2Model ----
(***************************************************************************)
(* Path-tracking simulation of animate.py: a Car that is driven once per   *)
(* animation frame by a Stanley lateral controller followed by a kinematic *)
(* bicycle model.                                                          *)
(*                                                                         *)
(* Python floats are modelled as fixed-point integers with three decimal  *)
(* places: lengths in mm, angles in mrad, velocities in mm/s,              *)
(* accelerations in mm/s^2, times in ms, gains in 1/1000.                  *)
(***************************************************************************)
EXTENDS Integers, Sequences, FiniteSets, TLC

\* ------------------------------------------------------------------------
\* Fixed-point arithmetic
\* ------------------------------------------------------------------------

\* One unit of the float values 1.0 (self.v = 0.0, self.k = 8.0, ...).
Scale == 1000

\* The element of a singleton set.  The({ e(a) : a \in {expr} }) is e(expr)
\* with expr computed once, the way a local variable holds a result.
The(S) == CHOOSE r \in S : TRUE

Abs(a) == IF a < 0 THEN -a ELSE a

Sgn(a) == IF a > 0 THEN 1 ELSE IF a < 0 THEN -1 ELSE 0

\* a / b rounded to the nearest integer, halves away from zero (b > 0).
RDiv(a, b) == IF a >= 0 THEN (a + b \div 2) \div b
                        ELSE -(((-a) + b \div 2) \div b)

\* Product of two fixed-point numbers.
Mul(a, b) == RDiv(a * b, Scale)

\* math.pi, in mrad.
Pi == 3142

HalfPi == Pi \div 2

TwoPi == 2 * Pi - 1

\* radians(deg): degrees to mrad.
Radians(deg) == RDiv(deg * Pi, 180)

\* Angle wrapped into (-pi, pi]: the 2*pi window -(Pi-1) .. Pi-1 of the grid.
NormaliseAngle(a) == ((a + (Pi - 1)) % TwoPi) - (Pi - 1)

\* sin on [0, pi/2], Taylor polynomial to the 7th order.
SinPoly(a) ==
    LET a2 == Mul(a, a)
        a3 == Mul(a2, a)
        a5 == Mul(a3, a2)
        a7 == Mul(a5, a2)
    IN  a - RDiv(a3, 6) + RDiv(a5, 120) - RDiv(a7, 5040)

\* cos on [0, pi/2], Taylor polynomial to the 8th order.
CosPoly(a) ==
    LET a2 == Mul(a, a)
        a4 == Mul(a2, a2)
        a6 == Mul(a4, a2)
        a8 == Mul(a4, a4)
    IN  Scale - RDiv(a2, 2) + RDiv(a4, 24) - RDiv(a6, 720) + RDiv(a8, 40320)

Sin(a) ==
    LET n == NormaliseAngle(a)
        m == Abs(n)
    IN  Sgn(n) * (IF m > HalfPi THEN SinPoly(Pi - m) ELSE SinPoly(m))

Cos(a) ==
    LET m == Abs(NormaliseAngle(a))
    IN  IF m > HalfPi THEN -CosPoly(Pi - m) ELSE CosPoly(m)

\* tan, for |a| < pi/2.
Tan(a) == RDiv(Sin(a) * Scale, Cos(a))

\* Largest angle in lo..hi-1 whose tangent is at most y/x (x, y >= 0).
RECURSIVE AtanSearch(_, _, _, _)
AtanSearch(lo, hi, y, x) ==
    IF hi - lo <= 1 THEN lo
    ELSE The({ IF Sin(mid) * x <= Cos(mid) * y
               THEN AtanSearch(mid, hi, y, x)
               ELSE AtanSearch(lo, mid, y, x)
               : mid \in {(lo + hi) \div 2} })

\* math.atan2(y, x).
Atan2(y, x) ==
    IF x = 0 /\ y = 0 THEN 0
    ELSE IF x >= 0 THEN Sgn(y) * AtanSearch(0, HalfPi + 1, Abs(y), x)
    ELSE (IF y < 0 THEN -1 ELSE 1) * (Pi - AtanSearch(0, HalfPi + 1, Abs(y), -x))

\* numpy.clip(a, lo, hi).
Clip(a, lo, hi) ==
    The({ IF r < lo THEN lo ELSE IF r > hi THEN hi ELSE r : r \in {a} })

\* ------------------------------------------------------------------------
\* Program constants
\* ------------------------------------------------------------------------

\* Simulation.__init__: fps = 50.0, dt = 1/fps (in ms); frames = 2500.
Fps == 50

SimFrames == 2500

SimDt == Scale \div Fps

\* Path.__init__: ds = 0.05 (mm).
Ds == 50

\* Car.__init__, model parameters.
Wheelbase == 2960

MaxSteerDeg == 33

Cr == 10

Ca == 2000

\* Car.__init__, tracker parameters.
K == 8000

KSoft == 1000

KYaw == 10

KSteer == 0

\* Car.drive: throttle = uniform(150, 200).
ThrottleMin == 150

ThrottleMax == 200

\* A field that may hold None is a sequence: <<>> for None, <<a>> for a.
None == <<>>

Some(a) == <<a>>

Val(o) == o[1]

\* ------------------------------------------------------------------------
\* Bounds of the model
\* ------------------------------------------------------------------------

\* Frames the host issues in a checked run (of SimFrames).
MaxFrames == 4

\* uniform(150, 200) is drawn from ThrottleSteps + 1 evenly spaced values.
ThrottleSteps == 2

\* Samples of a generated Path.
NumSamples == 60

\* Frames of the two runs that are compared for determinism.
MaxTwinFrames == 3

\* Calls of the vehicle model made on its own with arbitrary steering.
MaxModelCalls == 3

\* Ticks of a coasting (zero throttle) run.
MaxCoastTicks == 5

\* Ticks and path samples of the stability scenario.
MaxStabilityTicks == 40

NumStabilitySamples == 200

Throttles ==
    { ThrottleMin * Scale
        + RDiv(i * (ThrottleMax - ThrottleMin) * Scale, ThrottleSteps)
      : i \in 0..ThrottleSteps }

\* ------------------------------------------------------------------------
\* Path (generate_cubic_spline's output for two kinds of waypoints)
\* ------------------------------------------------------------------------

\* Samples every Ds along a straight line from the origin with heading yaw0.
StraightPath(n, yaw0) ==
    [ px   |-> [i \in 1..n |-> Mul((i - 1) * Ds, Cos(yaw0))],
      py   |-> [i \in 1..n |-> Mul((i - 1) * Ds, Sin(yaw0))],
      pyaw |-> [i \in 1..n |-> yaw0] ]

\* Samples every Ds along a left-turning circular arc of radius r that leaves
\* the origin along the x axis.
ArcPath(n, r) ==
    [ px   |-> [i \in 1..n |-> Mul(r, Sin(RDiv((i - 1) * Ds * Scale, r)))],
      py   |-> [i \in 1..n |-> r - Mul(r, Cos(RDiv((i - 1) * Ds * Scale, r)))],
      pyaw |-> [i \in 1..n |-> RDiv((i - 1) * Ds * Scale, r)] ]

\* ------------------------------------------------------------------------
\* LateralController (StanleyController.stanley_control)
\* ------------------------------------------------------------------------

\* Front axle: the pose projected forward by half the wheelbase along yaw.
FrontAxle(tr, x, y, yaw) ==
    [ x |-> x + Mul(tr.wheelbase \div 2, Cos(yaw)),
      y |-> y + Mul(tr.wheelbase \div 2, Sin(yaw)) ]

\* Squared distance of path sample i from the front axle f.
Dist2(p, i, f) ==
    (f.x - p.px[i]) * (f.x - p.px[i]) + (f.y - p.py[i]) * (f.y - p.py[i])

\* Least element of a non-empty set of integers.
MinOf(S) == CHOOSE a \in S : \A b \in S : a <= b

\* Scan over all samples: the first sample at minimal distance (1-based).
NearestSample(p, f) ==
    The({ MinOf({i \in 1..Len(p.px) : Dist2(p, i, f) = m})
          : m \in {MinOf({Dist2(p, i, f) : i \in 1..Len(p.px)})} })

\* Signed perpendicular distance of the front axle f from the path at
\* sample i, positive to the right of the path direction.
CrossTrack(p, i, f) ==
    Mul(f.x - p.px[i], Sin(p.pyaw[i])) - Mul(f.y - p.py[i], Cos(p.pyaw[i]))

\* Target search: nearest sample, cross-track error and heading error.
TargetAt(p, i, f, yaw) ==
    [ i |-> i, cte |-> CrossTrack(p, i, f),
      yaw_error |-> NormaliseAngle(p.pyaw[i] - yaw) ]

FindTarget(tr, p, x, y, yaw) ==
    The({ The({ TargetAt(p, i, f, yaw) : i \in {NearestSample(p, f)} })
          : f \in {FrontAxle(tr, x, y, yaw)} })

\* The steering law before the clamp.
DesiredSteering(tr, yaw_error, cte, v, delta) ==
    LET crosstrack_term == Atan2(Mul(tr.k, cte), tr.ksoft + v)
        yaw_rate        == Mul(RDiv(v * Scale, tr.wheelbase), Tan(delta))
    IN  The({ base + Mul(tr.ksteer, base - delta)
              : base \in {yaw_error + crosstrack_term - Mul(tr.kyaw, yaw_rate)} })

StanleyControl(tr, p, x, y, yaw, v, delta) ==
    IF Len(p.px) = 0
    THEN [err |-> "EmptyPathError", delta |-> delta, target_id |-> None,
          crosstrack_error |-> None]
    ELSE The({ [err |-> "none",
                delta |-> Clip(DesiredSteering(tr, t.yaw_error, t.cte, v, delta),
                               -tr.max_steer, tr.max_steer),
                target_id |-> Some(t.i - 1),
                crosstrack_error |-> Some(t.cte)]
               : t \in {FindTarget(tr, p, x, y, yaw)} })

\* ------------------------------------------------------------------------
\* VehicleModel (KinematicBicycleModel.kinematic_model)
\* ------------------------------------------------------------------------

\* Numerical tolerance on the steering bound (mrad).
SteerTolerance == 1

\* Resistance, opposing the motion: c_r * v + c_a * v * |v|.
Resistance(kbm, v) == Mul(v, kbm.c_r + Mul(kbm.c_a, Abs(v)))

KinematicModel(kbm, x, y, yaw, v, throttle, delta) ==
    IF Abs(delta) > kbm.max_steer + SteerTolerance
    THEN [err |-> "InvalidSteeringError", x |-> x, y |-> y, yaw |-> yaw,
          v |-> v, yaw_rate |-> 0, accel |-> 0]
    ELSE The({ [err |-> "none",
                x |-> x + Mul(Mul(v, Cos(yaw)), kbm.dt),
                y |-> y + Mul(Mul(v, Sin(yaw)), kbm.dt),
                yaw |-> NormaliseAngle(yaw + Mul(d.yaw_rate, kbm.dt)),
                v |-> v + Mul(d.accel, kbm.dt),
                yaw_rate |-> d.yaw_rate,
                accel |-> d.accel]
               : d \in {[accel |-> throttle - Resistance(kbm, v),
                         yaw_rate |-> Mul(RDiv(v * Scale, kbm.wheelbase),
                                          Tan(delta))]} })

\* ------------------------------------------------------------------------
\* Car
\* ------------------------------------------------------------------------

VARIABLES
    car,       \* the Car object's fields
    path,      \* the Path object's px, py, pyaw (shared with the tracker)
    frame,     \* animation frames (or harness ticks) issued so far
    target,    \* data of the host's target marker (target.set_data)
    error,     \* exception that ended the run, "none" while it runs
    throttle,  \* throttle drawn by the last tick
    calls,     \* calls the last tick made into the controller and the model
    ncalls,    \* number of calls made so far, per callee
    twin       \* the Car of a second run over the same Path

vars == <<car, path, frame, target, error, throttle, calls, ncalls, twin>>

\* Car.__init__
CarInit(init_x, init_y, init_yaw, dt) ==
    [ x |-> init_x, y |-> init_y, yaw |-> init_yaw,
      v |-> 0, delta |-> 0, omega |-> 0,
      wheelbase |-> Wheelbase, max_steer |-> Radians(MaxSteerDeg), dt |-> dt,
      c_r |-> Cr, c_a |-> Ca,
      k |-> K, ksoft |-> KSoft, kyaw |-> KYaw, ksteer |-> KSteer,
      crosstrack_error |-> None, target_id |-> None,
      tracker |-> [ k |-> K, ksoft |-> KSoft, kyaw |-> KYaw, ksteer |-> KSteer,
                    max_steer |-> Radians(MaxSteerDeg), wheelbase |-> Wheelbase ],
      kbm |-> [ wheelbase |-> Wheelbase, max_steer |-> Radians(MaxSteerDeg),
                dt |-> dt, c_r |-> Cr, c_a |-> Ca ] ]

\* Line 78 as "self.delta += ...": the command is added to the stored angle.
DriveControlAccumulate(c, p) ==
    The({ [ car |-> IF ctl.err = "none"
                    THEN [c EXCEPT !.delta = c.delta + ctl.delta,
                                   !.target_id = ctl.target_id,
                                   !.crosstrack_error = ctl.crosstrack_error]
                    ELSE c,
            err |-> ctl.err,
            call |-> [fn |-> "stanley_control", delta |-> c.delta, ret |-> ctl] ]
          : ctl \in {StanleyControl(c.tracker, p, c.x, c.y, c.yaw, c.v,
                                    c.delta)} })

\* Line 78 as "self.delta, _, _ = ...": the diagnostics are dropped.
DriveControlNoDiagnostics(c, p) ==
    The({ [ car |-> IF ctl.err = "none"
                    THEN [c EXCEPT !.delta = ctl.delta]
                    ELSE c,
            err |-> ctl.err,
            call |-> [fn |-> "stanley_control", delta |-> c.delta, ret |-> ctl] ]
          : ctl \in {StanleyControl(c.tracker, p, c.x, c.y, c.yaw, c.v,
                                    c.delta)} })

\* Line 78: the controller call and the assignment of its three results.
DriveControl(c, p) ==
    The({ [ car |-> IF ctl.err = "none"
                    THEN [c EXCEPT !.delta = ctl.delta,
                                   !.target_id = ctl.target_id,
                                   !.crosstrack_error = ctl.crosstrack_error]
                    ELSE c,
            err |-> ctl.err,
            call |-> [fn |-> "stanley_control", delta |-> c.delta, ret |-> ctl] ]
          : ctl \in {StanleyControl(c.tracker, p, c.x, c.y, c.yaw, c.v,
                                    c.delta)} })

\* Line 79 inside "try: ... except InvalidSteeringError: pass".
DriveModelSwallow(c, th) ==
    The({ [ car |-> IF mdl.err = "none"
                    THEN [c EXCEPT !.x = mdl.x, !.y = mdl.y,
                                   !.yaw = mdl.yaw, !.v = mdl.v]
                    ELSE c,
            err |-> "none",
            call |-> [fn |-> "kinematic_model", delta |-> c.delta, ret |-> mdl] ]
          : mdl \in {KinematicModel(c.kbm, c.x, c.y, c.yaw, c.v, th, c.delta)} })

\* Line 79 with the last two arguments in the wrong order.
DriveModelArgSwap(c, th) ==
    The({ [ car |-> IF mdl.err = "none"
                    THEN [c EXCEPT !.x = mdl.x, !.y = mdl.y,
                                   !.yaw = mdl.yaw, !.v = mdl.v]
                    ELSE c,
            err |-> mdl.err,
            call |-> [fn |-> "kinematic_model", delta |-> th, ret |-> mdl] ]
          : mdl \in {KinematicModel(c.kbm, c.x, c.y, c.yaw, c.v, c.delta, th)} })

\* Line 79: the model call and the assignment of its first four results; the
\* last two are dropped.  An exception leaves every field as it was.
DriveModel(c, th) ==
    The({ [ car |-> IF mdl.err = "none"
                    THEN [c EXCEPT !.x = mdl.x, !.y = mdl.y,
                                   !.yaw = mdl.yaw, !.v = mdl.v]
                    ELSE c,
            err |-> mdl.err,
            call |-> [fn |-> "kinematic_model", delta |-> c.delta, ret |-> mdl] ]
          : mdl \in {KinematicModel(c.kbm, c.x, c.y, c.yaw, c.v, th, c.delta)} })

\* Car.drive with lines 78 and 79 in the other order.
DriveSwapped(c, p, th) ==
    The({ IF mdl.err # "none"
          THEN [car |-> mdl.car, path |-> p, err |-> mdl.err,
                calls |-> <<mdl.call>>]
          ELSE The({ [car |-> ctl.car, path |-> p, err |-> ctl.err,
                      calls |-> <<mdl.call, ctl.call>>]
                     : ctl \in {DriveControl(mdl.car, p)} })
          : mdl \in {DriveModel(c, th)} })

\* Car.drive that also drops the first sample of the shared path arrays.
DrivePopsPath(c, p, th) ==
    The({ IF ctl.err # "none"
          THEN [car |-> ctl.car, path |-> p, err |-> ctl.err,
                calls |-> <<ctl.call>>]
          ELSE The({ [car |-> mdl.car,
                      path |-> [px |-> Tail(p.px), py |-> Tail(p.py),
                                pyaw |-> Tail(p.pyaw)],
                      err |-> mdl.err,
                      calls |-> <<ctl.call, mdl.call>>]
                     : mdl \in {DriveModel(ctl.car, th)} })
          : ctl \in {DriveControl(c, p)} })

\* Car.drive with the throttle th that uniform(150, 200) drew.
Drive(c, p, th) ==
    The({ IF ctl.err # "none"
          THEN [car |-> ctl.car, path |-> p, err |-> ctl.err,
                calls |-> <<ctl.call>>]
          ELSE The({ [car |-> mdl.car, path |-> p, err |-> mdl.err,
                      calls |-> <<ctl.call, mdl.call>>]
                     : mdl \in {DriveModel(ctl.car, th)} })
          : ctl \in {DriveControl(c, p)} })

\* Line 136: path.px[car.target_id], path.py[car.target_id].
ShowTarget(c, p) ==
    IF c.target_id = None
    THEN [err |-> "TypeError", data |-> <<>>]
    ELSE IF Val(c.target_id) >= Len(p.px) \/ Val(c.target_id) < -Len(p.px)
    THEN [err |-> "IndexError", data |-> <<>>]
    ELSE LET i == IF Val(c.target_id) >= 0 THEN Val(c.target_id) + 1
                  ELSE Len(p.px) + Val(c.target_id) + 1
         IN  [err |-> "none", data |-> <<p.px[i], p.py[i]>>]

\* animate with line 136 before line 126: the target is read, then the car
\* is driven.
AnimateFrameStale(c, p, th) ==
    The({ The({ [ car |-> d.car, path |-> d.path, calls |-> d.calls,
                  err |-> IF show.err # "none" THEN show.err ELSE d.err,
                  shown |-> d.err = "none" /\ show.err = "none",
                  data |-> show.data ]
                : show \in {ShowTarget(c, p)} })
          : d \in {Drive(c, p, th)} })

\* animate(frame, ...): drive the car, then read what the host draws.
AnimateFrame(c, p, th) ==
    The({ The({ [ car |-> d.car, path |-> d.path, calls |-> d.calls,
                  err |-> IF d.err # "none" THEN d.err ELSE show.err,
                  shown |-> d.err = "none" /\ show.err = "none",
                  data |-> show.data ]
                : show \in {ShowTarget(d.car, d.path)} })
          : d \in {Drive(c, p, th)} })

\* Calls of callee fn in a tick's call log.
CountCalls(log, fn) == Cardinality({i \in 1..Len(log) : log[i].fn = fn})

Tally(n, log) ==
    [fn \in DOMAIN n |-> n[fn] + CountCalls(log, fn)]

NoCalls == [fn \in {"stanley_control", "kinematic_model"} |-> 0]

\* ------------------------------------------------------------------------
\* The program: main() and the frames FuncAnimation issues
\* ------------------------------------------------------------------------

Paths == { StraightPath(NumSamples, 0), ArcPath(NumSamples, 100 * Ds) }

\* main(): sim, path and car are constructed; no frame has run.
Init ==
    /\ path \in Paths
    /\ car = CarInit(path.px[1], path.py[1], path.pyaw[1], SimDt)
    /\ twin = car
    /\ frame = 0
    /\ target = <<>>
    /\ error = "none"
    /\ throttle = None
    /\ calls = <<>>
    /\ ncalls = NoCalls

Animate ==
    /\ error = "none"
    /\ frame < SimFrames
    /\ frame < MaxFrames
    /\ \E th \in Throttles :
          \E r \in {AnimateFrame(car, path, th)} :
              /\ car' = r.car
              /\ path' = r.path
              /\ error' = r.err
              /\ target' = IF r.shown THEN r.data ELSE target
              /\ throttle' = Some(th)
              /\ calls' = r.calls
              /\ ncalls' = Tally(ncalls, r.calls)
    /\ frame' = frame + 1
    /\ UNCHANGED twin

Next == Animate

Spec == Init /\ [][Next]_vars

\* ------------------------------------------------------------------------
\* Two runs from the same VehicleState, Path and parameters
\* ------------------------------------------------------------------------

\* Each run's Car.drive draws its own throttle.
TwinTick ==
    /\ error = "none"
    /\ frame < MaxTwinFrames
    /\ \E tha, thb \in Throttles :
          \E a \in {Drive(car, path, tha)}, b \in {Drive(twin, path, thb)} :
              /\ car' = a.car
              /\ twin' = b.car
              /\ path' = a.path
              /\ error' = IF a.err # "none" THEN a.err ELSE b.err
              /\ throttle' = Some(tha)
              /\ calls' = a.calls
              /\ ncalls' = Tally(ncalls, a.calls)
    /\ frame' = frame + 1
    /\ UNCHANGED target

SpecTwin == Init /\ [][TwinTick]_vars

\* ------------------------------------------------------------------------
\* The vehicle model on its own
\* ------------------------------------------------------------------------

\* Initial velocities (mm/s) and steering commands (mrad) handed to the model.
Velocities == {500, 1000, 2000, 4000, 9000, 15000, 24000, 24995, 24996, 30000}

Steerings ==
    { 0, -Radians(MaxSteerDeg),
      Radians(MaxSteerDeg) + SteerTolerance,
      Radians(MaxSteerDeg) + SteerTolerance + 1,
      -(Radians(MaxSteerDeg) + SteerTolerance + 1), 2 * Radians(MaxSteerDeg) }

InitModel ==
    /\ path = StraightPath(NumSamples, 0)
    /\ \E v0 \in Velocities, yaw0 \in {0, HalfPi \div 2} :
          car = [CarInit(0, 0, yaw0, SimDt) EXCEPT !.v = v0]
    /\ twin = car
    /\ frame = 0
    /\ target = <<>>
    /\ error = "none"
    /\ throttle = None
    /\ calls = <<>>
    /\ ncalls = NoCalls

\* kinematic_model(x, y, yaw, v, th, s), called as line 79 calls it.
ModelCall(th, s) ==
    /\ error = "none"
    /\ \E m \in {DriveModel([car EXCEPT !.delta = s], th)} :
          /\ car' = m.car
          /\ error' = m.err
          /\ calls' = <<m.call>>
          /\ ncalls' = Tally(ncalls, <<m.call>>)
    /\ throttle' = Some(th)
    /\ frame' = frame + 1
    /\ UNCHANGED <<path, target, twin>>

SteerCall ==
    /\ frame < MaxModelCalls
    /\ \E th \in {0, ThrottleMin * Scale}, s \in Steerings : ModelCall(th, s)

SpecModel == InitModel /\ [][SteerCall]_vars

\* Zero throttle, steering within the bound.
Coast ==
    /\ frame < MaxCoastTicks
    /\ \E s \in {0, Radians(MaxSteerDeg), -Radians(MaxSteerDeg)} : ModelCall(0, s)

SpecCoast == InitModel /\ [][Coast]_vars

\* ------------------------------------------------------------------------
\* Stability scenario: lateral offset from a straight path, fixed velocity
\* ------------------------------------------------------------------------

Offsets == {2000, -2000, 1000, -500}

StabilityVelocities == {9000, 10000}

InitStability ==
    /\ path = StraightPath(NumStabilitySamples, 0)
    /\ \E off \in Offsets, v0 \in StabilityVelocities :
          car = [CarInit(0, off, 0, SimDt) EXCEPT !.v = v0]
    /\ twin = car
    /\ frame = 0
    /\ target = <<>>
    /\ error = "none"
    /\ throttle = None
    /\ calls = <<>>
    /\ ncalls = NoCalls

\* Car.drive with the throttle that balances the resistance, so that the
\* velocity stays as it is.
StabilityTick ==
    /\ error = "none"
    /\ frame < MaxStabilityTicks
    /\ \E d \in {Drive(car, path, Resistance(car.kbm, car.v))} :
          /\ car' = d.car
          /\ path' = d.path
          /\ error' = d.err
          /\ calls' = d.calls
          /\ ncalls' = Tally(ncalls, d.calls)
    /\ throttle' = Some(Resistance(car.kbm, car.v))
    /\ frame' = frame + 1
    /\ UNCHANGED <<target, twin>>

SpecStability == InitStability /\ [][StabilityTick]_vars

\* ------------------------------------------------------------------------
\* Properties
\* ------------------------------------------------------------------------

\* A tick (or harness call) has just been taken.
Ticked == frame' = frame + 1

\* The immutable configuration held by the Car, its tracker and its model.
Params(c) ==
    [ wheelbase |-> c.wheelbase, max_steer |-> c.max_steer, dt |-> c.dt,
      c_r |-> c.c_r, c_a |-> c.c_a, k |-> c.k, ksoft |-> c.ksoft,
      kyaw |-> c.kyaw, ksteer |-> c.ksteer,
      tracker |-> c.tracker, kbm |-> c.kbm ]

\* The VehicleState and the diagnostics of a Car.
Outputs(c) ==
    [ x |-> c.x, y |-> c.y, yaw |-> c.yaw, v |-> c.v, delta |-> c.delta,
      target_id |-> c.target_id, crosstrack_error |-> c.crosstrack_error ]

\* C1: every tick calls stanley_control once and then kinematic_model once,
\* in that order, the model receiving the steering command the controller
\* returned in the same tick; after n frames each has been called n times.
C1_ControllerThenModel ==
    /\ ncalls["stanley_control"] = frame
    /\ ncalls["kinematic_model"] = frame
    /\ frame > 0 =>
          /\ Len(calls) = 2
          /\ calls[1].fn = "stanley_control"
          /\ calls[2].fn = "kinematic_model"
          /\ calls[2].delta = calls[1].ret.delta

\* A tick in which the controller changed the steering angle and the model
\* was handed the new one.
C1_Witness ==
    /\ frame >= 2
    /\ Len(calls) = 2
    /\ calls[1].ret.delta # calls[1].delta
    /\ calls[2].delta = calls[1].ret.delta
    /\ calls[2].ret.yaw_rate # 0

\* C2: in every reachable state the stored steering angle is within the
\* bound: |delta| <= max_steer.
C2_SteeringBounded == Abs(car.delta) <= car.max_steer

\* The controller's command sits on the bound after a tick.
C2_Witness == frame > 0 /\ Abs(car.delta) = car.max_steer /\ car.v > 0

\* C3: no tick and no frame changes the Path samples or the parameters of
\* the controller and of the vehicle.
C3_PathAndParamsFrozen ==
    [][path' = path /\ Params(car') = Params(car)]_vars

\* The car has been driven away from the first sample of an intact Path.
C3_Witness ==
    /\ frame >= 2
    /\ car.x # path.px[1]
    /\ path \in Paths
    /\ Params(car) = Params(CarInit(0, 0, 0, SimDt))

\* C4: two runs from the same VehicleState, Path and parameters have the
\* same outputs after every tick.
C4_Deterministic == Outputs(twin) = Outputs(car)

\* C5: a steering command beyond max_steer by more than the tolerance makes
\* the model call fail with InvalidSteeringError, which reaches the caller,
\* and leaves x, y, yaw and velocity as they were.
C5_RejectsOversteer ==
    [][ (Ticked /\ Abs(calls'[1].delta) > car.kbm.max_steer + SteerTolerance)
        => /\ error' = "InvalidSteeringError"
           /\ car'.x = car.x /\ car'.y = car.y
           /\ car'.yaw = car.yaw /\ car'.v = car.v ]_vars

\* The smallest rejected command was rejected after the car had moved.
C5_Witness ==
    /\ error = "InvalidSteeringError"
    /\ frame >= 2
    /\ Abs(calls[1].delta) = car.kbm.max_steer + SteerTolerance + 1
    /\ car.x # 0

\* READY: constructed, no tick has run (the diagnostics are still None).
Ready == car.target_id = None /\ car.crosstrack_error = None

\* C6: the loop is READY exactly until the first tick, RUNNING after it and
\* after every further tick; the core never ends the run itself: a further
\* tick is possible whenever the host has frames left.
C6_TwoStateLoop ==
    /\ [](Ready <=> frame = 0)
    /\ [][~Ready => ~Ready']_vars
    /\ [](error = "none")
    /\ []((frame < MaxFrames /\ frame < SimFrames) => ENABLED Animate)

\* RUNNING after more than one tick.
C6_Witness == frame >= 2 /\ ~Ready /\ error = "none"

\* C7: after a tick the stored yaw rate is the yaw rate the model derived
\* in that tick.
C7_YawRateStored ==
    (frame > 0 /\ Len(calls) = 2) => car.omega = calls[2].ret.yaw_rate

\* Largest velocity whose resistance over one dt does not exceed it:
\* (1/dt - c_r) / c_a.
CoastLimit == RDiv((Scale * Fps - Cr) * Scale, Ca)

C9_CrossTrackMonotone ==
    [][ (Ticked /\ car.crosstrack_error # None)
        => Abs(Val(car'.crosstrack_error)) <= Abs(Val(car.crosstrack_error))
      ]_vars

\* C10: the target index and cross-track error the host reads in a frame
\* were set by that frame's tick, the index is a valid index into the Path,
\* and the marker shows that sample.
C10_HostReadsFreshTarget ==
    frame > 0 =>
        /\ error = "none"
        /\ car.target_id # None
        /\ car.crosstrack_error # None
        /\ car.target_id = calls[1].ret.target_id
        /\ car.crosstrack_error = calls[1].ret.crosstrack_error
        /\ Val(car.target_id) \in 0..(Len(path.px) - 1)
        /\ target = << path.px[Val(car.target_id) + 1],
                       path.py[Val(car.target_id) + 1] >>

\* The marker has moved on to a later sample than in the first frame.
C10_Witness ==
    /\ frame >= 3
    /\ error = "none"
    /\ car.target_id # None
    /\ Val(car.target_id) > (Wheelbase \div 2) \div Ds + 1
    /\ target = << path.px[Val(car.target_id) + 1],
                   path.py[Val(car.target_id) + 1] >>

====
